---- MODULE Spec2Model ----
(***************************************************************************)
(* The IRC relay server of server/src/server.rs: one session per accepted  *)
(* connection (handle_connection), the command dispatcher (handle_message) *)
(* and the routing primitives, run by concurrently scheduled sessions over *)
(* the two shared tables (users, channels).                                *)
(*                                                                         *)
(* Every access to a shared table or to a socket is one step.  A DashMap   *)
(* guard is modelled as a lease on the record it refers to; a guard that   *)
(* the code keeps across later statements is kept in ulease / clease.     *)
(***************************************************************************)
EXTENDS Integers, Sequences, FiniteSets, TLC

\* ------------------------------------------------------------ bounds ----
NumSessions == 3
NumActive == 2
MaxCmds == 1
MaxBroken == 1

Sessions == 1 .. NumSessions
\* The sessions whose clients send lines; the others stay blocked in read().
Active == 1 .. NumActive

\* ------------------------------------------------------ representation ----
\* Option::None of a String, of a Uuid and of a prefix.
NoName == "-"
NoId == 0
NoPrefix == << >>
\* The server prefix handle_connection is given (main.rs: "127.0.0.1").
Srv == <<"srv">>

Nicks == {"a", "z"}
Chans == {"#c", "#d"}
\* A JOIN parameter that does not begin with '#'.
PlainNames == {"c"}
\* The names a JOIN can carry.
JoinNames == Chans \cup PlainNames

IsChan(name) == name \in Chans

\* User::new, as handle_connection stores it.
NewUser ==
    [nickname |-> NoName, username |-> NoName, is_registered |-> FALSE,
     is_away |-> FALSE, channel |-> NoName]

\* User::prefix: Some(nickname!username@address) once both names are set.
UserPrefix(user) ==
    IF user.nickname # NoName /\ user.username # NoName
    THEN <<user.nickname, user.username>>
    ELSE NoPrefix

\* Message::new / Response::new.  A line is the prefix, the command word or
\* the numeric reply code, and the parameters that carry data.
Line(prefix, word, params) == [prefix |-> prefix, word |-> word, params |-> params]

NoLine == Line(NoPrefix, "", << >>)

\* The messages Message::from yields for the lines the clients send.
Inputs ==
    {Line(NoPrefix, c, << >>) :
        c \in {"USER", "NICK", "JOIN", "PART", "KICK", "PRIVMSG", "QUIT",
               "LIST", "AWAY", "PING", "PONG", "ERROR", "UNKNOWN"}}
    \cup {Line(NoPrefix, "USER", <<"u">>)}
    \cup {Line(NoPrefix, "NICK", <<n>>) : n \in Nicks}
    \cup {Line(NoPrefix, "JOIN", <<ch>>) : ch \in Chans}
    \cup {Line(NoPrefix, c, <<"#c">>) : c \in {"PART", "KICK"}}
    \cup {Line(NoPrefix, "JOIN", <<ch>>) : ch \in PlainNames}
    \cup {Line(NoPrefix, "KICK", <<"#c", n>>) : n \in Nicks}
    \cup {Line(NoPrefix, "PRIVMSG", <<n>>) : n \in Nicks}
    \cup {Line(NoPrefix, "PRIVMSG", <<n, "t">>) : n \in Nicks \cup {"#c"}}

VARIABLES
    users,      \* UserTable: id -> User record, for the ids in the table
    channels,   \* ChannelTable: the set of channel names in the table
    pc,         \* where each session is in handle_connection/handle_message
    msg,        \* the message a session is handling (prefix, command, params)
    loc,        \* the locals of the handler a session is in
    it,         \* the ids an iteration over `users` has passed
    ulease,     \* guards on `users` entries held across statements
    clease,     \* guards on `channels` entries held across statements
    created,    \* per name, the Channel records put into `channels`
    ret,        \* what handle_message returned to handle_connection
    out,        \* per sink, the write_all calls made by the commands in progress
    broken,     \* the sinks on which write_all fails (sinks of sending clients)
    eof,        \* the sessions whose socket reads return zero bytes
    ncmds,      \* lines read by each session
    welcomes,   \* RPL_WELCOME write_all calls made per participant
    dirty       \* handle_message changed a record or the channels table for the
                \* line the session is working on

vars == <<users, channels, created, dirty, pc, msg, loc, it, ulease, clease, ret, out, broken,
          eof, ncmds, welcomes>>

LocInit ==
    [reply |-> NoLine, cont |-> "", target |-> NoId, chan |-> NoName,
     count |-> 0, chseen |-> {}]

\* ------------------------------------------------------- initial states ----
\* Quiescent states of the server: every session is either not accepted yet
\* or blocked in read() with the record its earlier commands left behind.
NickOf(s) == IF s = 1 THEN "a" ELSE IF s = 2 THEN "b" ELSE IF s = 3 THEN "n" ELSE "m"

\* The initial states checked: the profiles of the first three connections
\* (any further connection is not accepted yet) and the channels table.
Configs ==
    { [profiles |-> <<"fresh", "fresh", "reg">>, chans |-> {}],
      [profiles |-> <<"nick", "fresh", "new">>, chans |-> {}],
      [profiles |-> <<"away", "reg", "inc">>, chans |-> {"#c", "#d"}],
      [profiles |-> <<"inc", "inc", "inc">>, chans |-> {"#c"}] }

ProfileOf(cfg, s) == IF s <= Len(cfg.profiles) THEN cfg.profiles[s] ELSE "new"

ProfileUser(s, p) ==
    CASE p = "fresh" -> NewUser
      [] p = "nick" -> [NewUser EXCEPT !.nickname = NickOf(s)]
      [] p = "reg" ->
            [NewUser EXCEPT !.nickname = NickOf(s),
                            !.username = "u", !.is_registered = TRUE]
      [] p = "inc" ->
            [NewUser EXCEPT !.nickname = NickOf(s),
                            !.username = "u", !.is_registered = TRUE,
                            !.channel = "#c"]
      [] p = "away" ->
            [NewUser EXCEPT !.nickname = NickOf(s),
                            !.username = "u", !.is_registered = TRUE,
                            !.is_away = TRUE]
      [] OTHER -> NewUser

Init ==
    \E cfg \in Configs :
        /\ users = [s \in {x \in Sessions : ProfileOf(cfg, x) # "new"} |->
                        ProfileUser(s, ProfileOf(cfg, s))]
        /\ channels = cfg.chans
        /\ created = [c \in JoinNames |-> IF c \in cfg.chans THEN 1 ELSE 0]
        /\ dirty = [s \in Sessions |-> FALSE]
        /\ pc = [s \in Sessions |-> IF ProfileOf(cfg, s) = "new" THEN "new" ELSE "read"]
        /\ welcomes = [s \in Sessions |->
                          IF ProfileOf(cfg, s) \in {"new", "fresh", "nick"} THEN 0 ELSE 1]
        /\ msg = [s \in Sessions |-> NoLine]
        /\ loc = [s \in Sessions |-> LocInit]
        /\ it = [s \in Sessions |-> {}]
        /\ ulease = {}
        /\ clease = {}
        /\ ret = [s \in Sessions |-> "None"]
        /\ out = [s \in Sessions |-> << >>]
        /\ broken \in {b \in SUBSET Active : Cardinality(b) <= MaxBroken}
        /\ eof = [s \in Sessions |-> FALSE]
        /\ ncmds = [s \in Sessions |-> 0]

\* ------------------------------------------------------------- helpers ----
Present(u) == u \in DOMAIN users

\* stream.write_all(message.to_irc()) on u's sink, made for session s.
WriteTo(o, u, s, line) ==
    [o EXCEPT ![u] = Append(@, [from |-> s, line |-> line, ok |-> u \notin broken])]

\* A guard on users[u] can be taken when no other guard on it conflicts.
CanReadUser(u) == \A l \in ulease : ~(l[2] = u /\ l[3] = "w")
CanWriteUser_NoGuard(u) == TRUE

CanWriteUser(u) == \A l \in ulease : l[2] # u
CanReadChan(c) == \A l \in clease : ~(l[2] = c /\ l[3] = "w")
CanWriteChan(c) == \A l \in clease : l[2] # c

\* Returning from handle_message drops every guard the handler still holds.
DropAll(leaseSet, s) == {l \in leaseSet : l[1] # s}

\* return r / the `?` operator: handle_message hands r to handle_connection.
\* An Err carries which call failed: the session's own sink ("ErrOwn"),
\* another participant's sink ("ErrPeer") or a table lookup ("ErrLookup").
Return(s, r) ==
    /\ pc' = [pc EXCEPT ![s] = "ret"]
    /\ ret' = [ret EXCEPT ![s] = r]
    /\ loc' = [loc EXCEPT ![s] = LocInit]
    /\ it' = [it EXCEPT ![s] = {}]
    /\ ulease' = DropAll(ulease, s)
    /\ clease' = DropAll(clease, s)

Goto(s, p) == pc' = [pc EXCEPT ![s] = p]

\* Start sending `line` to the session's own sink; afterwards go on at `cont`
\* ("return": return Ok(Continue)).
SendOwn(s, line, cont) ==
    /\ Goto(s, "reply")
    /\ loc' = [loc EXCEPT ![s].reply = line, ![s].cont = cont]

Jump(s, p) == Goto(s, p) /\ UNCHANGED loc

\* One step of an iteration over `users` (iter / iter_mut) reaches the entry
\* u; the slots of connections not yet accepted that it passed on the way
\* are `skipped`.  The order of the entries is the table's, not the program's.
IterNext(s, u, skipped) ==
    /\ Present(u)
    /\ u \notin it[s]
    /\ skipped \subseteq {x \in Sessions \ it[s] : pc[x] = "new"}

IterDone(s) == DOMAIN users \subseteq it[s]

\* A step of handle_message for session s that changes a participant record
\* or the channels table marks the session's current line.
Touch(s) ==
    dirty' = [dirty EXCEPT ![s] = @ \/ users' # users \/ channels' # channels]

\* ----------------------------------------------------- handle_connection ----
\* User::new and users.insert for a new connection.
Accept(s) ==
    /\ pc[s] = "new"
    /\ users' = [u \in DOMAIN users \cup {s} |-> IF u = s THEN NewUser ELSE users[u]]
    /\ Goto(s, "read")
    /\ UNCHANGED <<channels, created, dirty, msg, loc, it, ulease, clease, ret, out, broken, eof,
                   ncmds, welcomes>>

\* The log keeps the writes of the commands in progress: reading the next
\* line of session s forgets the writes made for its previous one.
Forget(o, s) ==
    [u \in Sessions |-> SelectSeq(o[u], LAMBDA e : e.from # s)]

\* stream.read followed by Message::from: a line that parses.
ReadLine(s) ==
    /\ pc[s] = "read"
    /\ s \in Active
    /\ ~eof[s]
    /\ ncmds[s] < MaxCmds
    /\ \E m \in Inputs : msg' = [msg EXCEPT ![s] = m]
    /\ ncmds' = [ncmds EXCEPT ![s] = @ + 1]
    /\ out' = Forget(out, s)
    /\ dirty' = [dirty EXCEPT ![s] = FALSE]
    /\ Goto(s, "hm")
    /\ UNCHANGED <<users, channels, created, loc, it, ulease, clease, ret, broken, eof, welcomes>>

\* stream.read returns zero bytes (the peer closed: every later read does
\* too) or a line without a command word: Message::from returns Err.
ReadEmpty(s) ==
    /\ pc[s] = "read"
    /\ s \in Active
    /\ \/ eof' = [eof EXCEPT ![s] = TRUE] /\ UNCHANGED ncmds
       \/ /\ ~eof[s]
          /\ ncmds[s] < MaxCmds
          /\ ncmds' = [ncmds EXCEPT ![s] = @ + 1]
          /\ UNCHANGED eof
    /\ msg' = [msg EXCEPT ![s] = NoLine]
    /\ out' = Forget(out, s)
    /\ dirty' = [dirty EXCEPT ![s] = FALSE]
    /\ Goto(s, "parse_err")
    /\ UNCHANGED <<users, channels, created, loc, it, ulease, clease, ret, broken, welcomes>>

\* stream.read returns Err: expect() panics and the thread ends at once.
ReadFail(s) ==
    /\ pc[s] = "read"
    /\ s \in Active
    /\ ~eof[s]
    /\ ncmds[s] < MaxCmds
    /\ ncmds' = [ncmds EXCEPT ![s] = @ + 1]
    /\ msg' = [msg EXCEPT ![s] = NoLine]
    /\ out' = Forget(out, s)
    /\ dirty' = [dirty EXCEPT ![s] = FALSE]
    /\ Goto(s, "panicked")
    /\ UNCHANGED <<users, channels, created, loc, it, ulease, clease, ret, broken, eof, welcomes>>

\* The Err arm: send_to_user(ERR_UNKNOWNCOMMAND).expect(..); continue.
ParseErr(s) ==
    /\ pc[s] = "parse_err"
    /\ CanWriteUser(s)
    /\ out' = WriteTo(out, s, s, Line(Srv, "421", << >>))
    /\ Goto(s, IF s \in broken THEN "panicked" ELSE "read")
    /\ UNCHANGED <<users, channels, created, dirty, msg, loc, it, ulease, clease, ret, broken, eof,
                   ncmds, welcomes>>

\* match handle_message(..): Quit breaks the loop, Continue and Err go on.
Ret(s) ==
    /\ pc[s] = "ret"
    /\ Goto(s, IF ret[s] = "Quit" THEN "remove" ELSE "read")
    /\ UNCHANGED <<users, channels, created, dirty, msg, loc, it, ulease, clease, ret, out, broken,
                   eof, ncmds, welcomes>>

\* users.remove(&user_id) after the loop.
Remove(s) ==
    /\ pc[s] = "remove"
    /\ CanWriteUser(s)
    /\ users' = [u \in DOMAIN users \ {s} |-> users[u]]
    /\ Goto(s, "done")
    /\ UNCHANGED <<channels, created, dirty, msg, loc, it, ulease, clease, ret, out, broken, eof,
                   ncmds, welcomes>>

\* -------------------------------------------------------- handle_message ----
\* A gate that also lets JOIN pass when not registered.
Gated_JoinPasses(is_registered, command) ==
    ~is_registered /\ command \notin {"USER", "NICK", "QUIT", "JOIN"}

\* A gate that also lets AWAY pass when not registered.
Gated_AwayPasses(is_registered, command) ==
    ~is_registered /\ command \notin {"USER", "NICK", "QUIT", "AWAY"}

\* The registration gate: only USER, NICK and QUIT pass when not registered.
Gated(is_registered, command) ==
    ~is_registered /\ command \notin {"USER", "NICK", "QUIT"}

\* The head of handle_message: read the own record once (prefix and
\* is_registered), apply the gate, then the parameter checks each arm makes
\* before it touches a table.
Start(s) ==
    /\ pc[s] = "hm"
    /\ CanReadUser(s)
    /\ LET user == users[s]
           command == msg[s].word
           params == msg[s].params
           n == Len(params)
       IN
        /\ msg' = [msg EXCEPT ![s].prefix = UserPrefix(user)]
        /\ IF Gated(user.is_registered, command)
             THEN SendOwn(s, Line(Srv, "451", << >>), "return")
           ELSE IF command = "USER"
             THEN IF n = 0 THEN SendOwn(s, Line(Srv, "431", << >>), "return")
                  ELSE Jump(s, "user_chk")
           ELSE IF command = "NICK"
             THEN IF n = 0 THEN SendOwn(s, Line(Srv, "431", << >>), "return")
                  ELSE Jump(s, "nick_scan")
           ELSE IF command = "AWAY" THEN Jump(s, "away")
           ELSE IF command = "PRIVMSG"
             THEN IF n # 2 THEN SendOwn(s, Line(Srv, "411", << >>), "return")
                  ELSE IF ~IsChan(params[1]) THEN Jump(s, "pm_scan")
                  ELSE Jump(s, "pm_chan")
           ELSE IF command = "QUIT"
             THEN SendOwn(s, Line(Srv, "ERROR", << >>), "quit_chk")
           ELSE IF command = "UNKNOWN"
             THEN SendOwn(s, Line(Srv, "421", << >>), "reg_chk")
           ELSE IF command = "JOIN"
             THEN IF n = 0 THEN SendOwn(s, Line(Srv, "461", << >>), "return")
                  ELSE Jump(s, "join_entry")
           ELSE IF command = "PART"
             THEN IF n = 0 THEN SendOwn(s, Line(Srv, "461", << >>), "return")
                  ELSE Jump(s, "part_get")
           ELSE IF command = "KICK"
             THEN IF n < 2 THEN SendOwn(s, Line(Srv, "461", << >>), "return")
                  ELSE Jump(s, "kick_get")
           ELSE IF command = "LIST" THEN Jump(s, "list_next")
           ELSE IF command = "PING"
             THEN SendOwn(s, Line(Srv, "PONG", <<"srv">>), "reg_chk")
           ELSE Jump(s, "reg_chk")
    /\ UNCHANGED <<users, channels, created, dirty, it, ulease, clease, ret, out, broken, eof, ncmds,
                   welcomes>>

\* send_to_user(&response, &users, user_id)? for the session's own reply,
\* then what the arm does next: return Ok(Continue) or go on.
Reply(s) ==
    /\ pc[s] = "reply"
    /\ CanWriteUser(s)
    /\ out' = WriteTo(out, s, s, loc[s].reply)
    /\ IF s \in broken THEN Return(s, "ErrOwn")
       ELSE IF loc[s].cont = "return" THEN Return(s, "Continue")
       ELSE /\ Goto(s, loc[s].cont)
            /\ loc' = [loc EXCEPT ![s].reply = NoLine, ![s].cont = ""]
            /\ UNCHANGED <<it, ulease, clease, ret>>
    /\ UNCHANGED <<users, channels, created, dirty, msg, broken, eof, ncmds, welcomes>>

\* Command::User: the second look at is_registered.
UserCheck(s) ==
    /\ pc[s] = "user_chk"
    /\ CanReadUser(s)
    /\ IF users[s].is_registered
       THEN SendOwn(s, Line(Srv, "462", << >>), "return")
       ELSE Jump(s, "user_set")
    /\ UNCHANGED <<users, channels, created, dirty, msg, it, ulease, clease, ret, out, broken, eof,
                   ncmds, welcomes>>

\* Command::User: users.get_mut(&user_id).username = Some(username).
UserSet(s) ==
    /\ pc[s] = "user_set"
    /\ CanWriteUser(s)
    /\ users' = [users EXCEPT ![s].username = msg[s].params[1]]
    /\ Jump(s, "reg_chk")
    /\ UNCHANGED <<channels, created, msg, it, ulease, clease, ret, out, broken, eof, ncmds,
                   welcomes>>
    /\ Touch(s)

\* A scan that stores the requested nickname before it reports the clash.
NickScan_SetOnClash(s) ==
    /\ pc[s] = "nick_scan"
    /\ \E u \in Sessions, skipped \in SUBSET Sessions :
        /\ IterNext(s, u, skipped)
        /\ CanReadUser(u)
        /\ IF users[u].nickname = msg[s].params[1]
           THEN /\ SendOwn(s, Line(Srv, "433", << >>), "return")
                /\ it' = [it EXCEPT ![s] = {}]
                /\ users' = [users EXCEPT ![s].nickname = msg[s].params[1]]
           ELSE /\ it' = [it EXCEPT ![s] = @ \cup {u} \cup skipped]
                /\ UNCHANGED <<pc, loc, users>>
    /\ UNCHANGED <<channels, created, msg, ulease, clease, ret, out, broken, eof, ncmds,
                   welcomes>>
    /\ Touch(s)

\* nickname_in_use: one entry of the scan.  A match returns true at once.
NickScan(s) ==
    /\ pc[s] = "nick_scan"
    /\ \E u \in Sessions, skipped \in SUBSET Sessions :
        /\ IterNext(s, u, skipped)
        /\ CanReadUser(u)
        /\ IF users[u].nickname = msg[s].params[1]
           THEN /\ SendOwn(s, Line(Srv, "433", << >>), "return")
                /\ it' = [it EXCEPT ![s] = {}]
           ELSE /\ it' = [it EXCEPT ![s] = @ \cup {u} \cup skipped]
                /\ UNCHANGED <<pc, loc>>
    /\ UNCHANGED <<users, channels, created, dirty, msg, ulease, clease, ret, out, broken, eof, ncmds,
                   welcomes>>

\* nickname_in_use ran through the table and returns false.
NickFree(s) ==
    /\ pc[s] = "nick_scan"
    /\ IterDone(s)
    /\ it' = [it EXCEPT ![s] = {}]
    /\ Jump(s, "nick_set")
    /\ UNCHANGED <<users, channels, created, dirty, msg, ulease, clease, ret, out, broken, eof, ncmds,
                   welcomes>>

\* Command::Nick: set the nickname and read is_registered under one guard.
NickSet(s) ==
    /\ pc[s] = "nick_set"
    /\ CanWriteUser(s)
    /\ users' = [users EXCEPT ![s].nickname = msg[s].params[1]]
    /\ Jump(s, IF users[s].is_registered THEN "bcast_all" ELSE "reg_chk")
    /\ UNCHANGED <<channels, created, msg, it, ulease, clease, ret, out, broken, eof, ncmds,
                   welcomes>>
    /\ Touch(s)

\* broadcast_to_all: one entry of the iter_mut loop; `?` ends it on an error.
BcastAll(s) ==
    /\ pc[s] = "bcast_all"
    /\ \E u \in Sessions, skipped \in SUBSET Sessions :
        /\ IterNext(s, u, skipped)
        /\ CanWriteUser(u)
        /\ out' = WriteTo(out, u, s, msg[s])
        /\ IF u \in broken
           THEN Return(s, IF u = s THEN "ErrOwn" ELSE "ErrPeer")
           ELSE /\ it' = [it EXCEPT ![s] = @ \cup {u} \cup skipped]
                /\ UNCHANGED <<pc, loc, ret, ulease, clease>>
    /\ UNCHANGED <<users, channels, created, dirty, msg, broken, eof, ncmds, welcomes>>

BcastAllDone(s) ==
    /\ pc[s] = "bcast_all"
    /\ IterDone(s)
    /\ it' = [it EXCEPT ![s] = {}]
    /\ Jump(s, "reg_chk")
    /\ UNCHANGED <<users, channels, created, dirty, msg, ulease, clease, ret, out, broken, eof, ncmds,
                   welcomes>>

\* broadcast_message: every entry but id_to_exclude; `?` ends it on an error.
BcastExcl(s) ==
    /\ pc[s] = "bcast_excl"
    /\ \E u \in Sessions, skipped \in SUBSET Sessions :
        /\ IterNext(s, u, skipped)
        /\ CanWriteUser(u)
        /\ IF u # s
           THEN /\ out' = WriteTo(out, u, s, msg[s])
                /\ IF u \in broken
                   THEN Return(s, "ErrPeer")
                   ELSE /\ it' = [it EXCEPT ![s] = @ \cup {u} \cup skipped]
                        /\ UNCHANGED <<pc, loc, ret, ulease, clease>>
           ELSE /\ it' = [it EXCEPT ![s] = @ \cup {u} \cup skipped]
                /\ UNCHANGED <<pc, loc, ret, ulease, clease, out>>
    /\ UNCHANGED <<users, channels, created, dirty, msg, broken, eof, ncmds, welcomes>>

\* Command::Quit after the broadcast: return Ok(CommandResponse::Quit).
BcastExclDone(s) ==
    /\ pc[s] = "bcast_excl"
    /\ IterDone(s)
    /\ Return(s, "Quit")
    /\ UNCHANGED <<users, channels, created, dirty, msg, out, broken, eof, ncmds, welcomes>>

\* send_to_channel: the entries whose channel is the given one, but
\* id_to_exclude; `?` ends it on an error.
ChanSend(s) ==
    /\ pc[s] = "chan_send"
    /\ \E u \in Sessions, skipped \in SUBSET Sessions :
        /\ IterNext(s, u, skipped)
        /\ CanWriteUser(u)
        /\ IF u # s /\ users[u].channel = loc[s].chan
           THEN /\ out' = WriteTo(out, u, s, msg[s])
                /\ IF u \in broken
                   THEN Return(s, "ErrPeer")
                   ELSE /\ it' = [it EXCEPT ![s] = @ \cup {u} \cup skipped]
                        /\ UNCHANGED <<pc, loc, ret, ulease, clease>>
           ELSE /\ it' = [it EXCEPT ![s] = @ \cup {u} \cup skipped]
                /\ UNCHANGED <<pc, loc, ret, ulease, clease, out>>
    /\ UNCHANGED <<users, channels, created, dirty, msg, broken, eof, ncmds, welcomes>>

\* send_to_channel returned Ok: the arm goes on (the PRIVMSG arm's guard on
\* the channel ends with its block).
ChanSendDone(s) ==
    /\ pc[s] = "chan_send"
    /\ IterDone(s)
    /\ it' = [it EXCEPT ![s] = {}]
    /\ clease' = DropAll(clease, s)
    /\ Goto(s, loc[s].cont)
    /\ loc' = [loc EXCEPT ![s].chan = NoName, ![s].cont = ""]
    /\ UNCHANGED <<users, channels, created, dirty, msg, ulease, ret, out, broken, eof, ncmds, welcomes>>

\* Command::Away: toggle is_away under one guard, then reply.
Away(s) ==
    /\ pc[s] = "away"
    /\ CanWriteUser(s)
    /\ users' = [users EXCEPT ![s].is_away = ~@]
    /\ SendOwn(s, Line(Srv, IF ~users[s].is_away THEN "306" ELSE "305", << >>), "reg_chk")
    /\ UNCHANGED <<channels, created, msg, it, ulease, clease, ret, out, broken, eof, ncmds,
                   welcomes>>
    /\ Touch(s)

\* get_nickname_id for a PRIVMSG to a nickname: one entry of the scan.
PmScan(s) ==
    /\ pc[s] = "pm_scan"
    /\ \E u \in Sessions, skipped \in SUBSET Sessions :
        /\ IterNext(s, u, skipped)
        /\ CanReadUser(u)
        /\ IF users[u].nickname = msg[s].params[1]
           THEN /\ Goto(s, "pm_away")
                /\ loc' = [loc EXCEPT ![s].target = u]
                /\ it' = [it EXCEPT ![s] = {}]
           ELSE /\ it' = [it EXCEPT ![s] = @ \cup {u} \cup skipped]
                /\ UNCHANGED <<pc, loc>>
    /\ UNCHANGED <<users, channels, created, dirty, msg, ulease, clease, ret, out, broken, eof, ncmds,
                   welcomes>>

\* get_nickname_id returned None: ERR_NOSUCHNICK, and the arm falls through.
PmScanNone(s) ==
    /\ pc[s] = "pm_scan"
    /\ IterDone(s)
    /\ it' = [it EXCEPT ![s] = {}]
    /\ SendOwn(s, Line(Srv, "401", << >>), "reg_chk")
    /\ UNCHANGED <<users, channels, created, dirty, msg, ulease, clease, ret, out, broken, eof, ncmds,
                   welcomes>>

\* users.get(&nickname_id).ok_or(..)?.is_away, and RPL_AWAY when set.
PmAway(s) ==
    /\ pc[s] = "pm_away"
    /\ LET t == loc[s].target IN
        IF ~Present(t) THEN Return(s, "ErrLookup")
        ELSE /\ CanReadUser(t)
             /\ IF users[t].is_away
                THEN SendOwn(s, Line(Srv, "301", <<msg[s].params[1]>>), "pm_send")
                ELSE Jump(s, "pm_send")
             /\ UNCHANGED <<it, ulease, clease, ret>>
    /\ UNCHANGED <<users, channels, created, dirty, msg, out, broken, eof, ncmds, welcomes>>

\* send_to_user(&message, &users, nickname_id)?
PmSend(s) ==
    /\ pc[s] = "pm_send"
    /\ LET t == loc[s].target IN
        IF ~Present(t) THEN Return(s, "ErrLookup") /\ UNCHANGED out
        ELSE /\ CanWriteUser(t)
             /\ out' = WriteTo(out, t, s, msg[s])
             /\ IF t \in broken
                THEN Return(s, IF t = s THEN "ErrOwn" ELSE "ErrPeer")
                ELSE /\ Goto(s, "reg_chk")
                     /\ loc' = [loc EXCEPT ![s].target = NoId]
                     /\ UNCHANGED <<it, ulease, clease, ret>>
    /\ UNCHANGED <<users, channels, created, dirty, msg, broken, eof, ncmds, welcomes>>

\* channels.get(&recipient): the Ref it returns lives to the end of the
\* else-block, across the membership check and send_to_channel.
PmChan(s) ==
    /\ pc[s] = "pm_chan"
    /\ CanReadChan(msg[s].params[1])
    /\ IF msg[s].params[1] \notin channels
       THEN SendOwn(s, Line(Srv, "403", << >>), "return") /\ UNCHANGED clease
       ELSE /\ clease' = clease \cup {<<s, msg[s].params[1], "r">>}
            /\ Jump(s, "pm_member")
    /\ UNCHANGED <<users, channels, created, dirty, msg, it, ulease, ret, out, broken, eof, ncmds,
                   welcomes>>

\* in_channel for a PRIVMSG to a channel.
PmMember(s) ==
    /\ pc[s] = "pm_member"
    /\ CanReadUser(s)
    /\ IF users[s].channel = msg[s].params[1]
       THEN /\ Goto(s, "chan_send")
            /\ loc' = [loc EXCEPT ![s].chan = msg[s].params[1], ![s].cont = "reg_chk"]
       ELSE SendOwn(s, Line(Srv, "404", << >>), "return")
    /\ UNCHANGED <<users, channels, created, dirty, msg, it, ulease, clease, ret, out, broken, eof,
                   ncmds, welcomes>>

\* Command::Quit after the acknowledgement: broadcast only when registered.
QuitCheck(s) ==
    /\ pc[s] = "quit_chk"
    /\ CanReadUser(s)
    /\ IF users[s].is_registered
       THEN Jump(s, "bcast_excl") /\ UNCHANGED <<it, ulease, clease, ret>>
       ELSE Return(s, "Quit")
    /\ UNCHANGED <<users, channels, created, dirty, msg, out, broken, eof, ncmds, welcomes>>

\* An entry that takes every name for vacant (insert, not entry/or_insert).
Vacant_Always(c) == TRUE

\* channels.entry(name) is Entry::Vacant: or_insert puts the new record in.
Vacant(c) == c \notin channels

\* A lookup in place of entry/or_insert: the table stays as it is.
OrInsert_Lookup(chs, c) == chs

\* The table after entry(name).or_insert(record).
OrInsert(chs, c) == chs \cup {c}

\* channels.entry(name).or_insert(..).clone(): the RefMut ends with the
\* statement.
JoinEntry(s) ==
    /\ pc[s] = "join_entry"
    /\ CanWriteChan(msg[s].params[1])
    /\ channels' = OrInsert(channels, msg[s].params[1])
    /\ created' = [created EXCEPT ![msg[s].params[1]] = IF Vacant(msg[s].params[1]) THEN @ + 1 ELSE @]
    /\ Jump(s, "join_set")
    /\ UNCHANGED <<users, msg, it, ulease, clease, ret, out, broken, eof, ncmds,
                   welcomes>>
    /\ Touch(s)

\* users.get_mut(&user_id).channel = Some(channel), then send_to_channel.
JoinSet(s) ==
    /\ pc[s] = "join_set"
    /\ CanWriteUser(s)
    /\ users' = [users EXCEPT ![s].channel = msg[s].params[1]]
    /\ Goto(s, "chan_send")
    /\ loc' = [loc EXCEPT ![s].chan = msg[s].params[1], ![s].cont = "reg_chk"]
    /\ UNCHANGED <<channels, created, msg, it, ulease, clease, ret, out, broken, eof, ncmds,
                   welcomes>>
    /\ Touch(s)

\* Command::Part: channels.get(&channel_name), cloned out of its Ref.
PartGet(s) ==
    /\ pc[s] = "part_get"
    /\ CanReadChan(msg[s].params[1])
    /\ IF msg[s].params[1] \notin channels
       THEN SendOwn(s, Line(Srv, "403", << >>), "return")
       ELSE Jump(s, "part_member")
    /\ UNCHANGED <<users, channels, created, dirty, msg, it, ulease, clease, ret, out, broken, eof,
                   ncmds, welcomes>>

PartMember(s) ==
    /\ pc[s] = "part_member"
    /\ CanReadUser(s)
    /\ IF users[s].channel = msg[s].params[1]
       THEN Jump(s, "part_clear")
       ELSE SendOwn(s, Line(Srv, "442", << >>), "return")
    /\ UNCHANGED <<users, channels, created, dirty, msg, it, ulease, clease, ret, out, broken, eof,
                   ncmds, welcomes>>

\* users.get_mut(&user_id).channel = None, then send_to_channel.
PartClear(s) ==
    /\ pc[s] = "part_clear"
    /\ CanWriteUser(s)
    /\ users' = [users EXCEPT ![s].channel = NoName]
    /\ Goto(s, "chan_send")
    /\ loc' = [loc EXCEPT ![s].chan = msg[s].params[1], ![s].cont = "reg_chk"]
    /\ UNCHANGED <<channels, created, msg, it, ulease, clease, ret, out, broken, eof, ncmds,
                   welcomes>>
    /\ Touch(s)

\* Command::Kick: channels.get(&channel_name), cloned out of its Ref.
KickGet(s) ==
    /\ pc[s] = "kick_get"
    /\ CanReadChan(msg[s].params[1])
    /\ IF msg[s].params[1] \notin channels
       THEN SendOwn(s, Line(Srv, "403", << >>), "return")
       ELSE Jump(s, "kick_kicker")
    /\ UNCHANGED <<users, channels, created, dirty, msg, it, ulease, clease, ret, out, broken, eof,
                   ncmds, welcomes>>

\* kicker_in_channel.
KickKicker(s) ==
    /\ pc[s] = "kick_kicker"
    /\ CanReadUser(s)
    /\ IF users[s].channel = msg[s].params[1]
       THEN Jump(s, "kick_scan")
       ELSE SendOwn(s, Line(Srv, "442", << >>), "return")
    /\ UNCHANGED <<users, channels, created, dirty, msg, it, ulease, clease, ret, out, broken, eof,
                   ncmds, welcomes>>

\* get_nickname_id(&target_user): one entry of the scan.
KickScan(s) ==
    /\ pc[s] = "kick_scan"
    /\ \E u \in Sessions, skipped \in SUBSET Sessions :
        /\ IterNext(s, u, skipped)
        /\ CanReadUser(u)
        /\ IF users[u].nickname = msg[s].params[2]
           THEN /\ Goto(s, "kick_target")
                /\ loc' = [loc EXCEPT ![s].target = u]
                /\ it' = [it EXCEPT ![s] = {}]
           ELSE /\ it' = [it EXCEPT ![s] = @ \cup {u} \cup skipped]
                /\ UNCHANGED <<pc, loc>>
    /\ UNCHANGED <<users, channels, created, dirty, msg, ulease, clease, ret, out, broken, eof, ncmds,
                   welcomes>>

KickScanNone(s) ==
    /\ pc[s] = "kick_scan"
    /\ IterDone(s)
    /\ it' = [it EXCEPT ![s] = {}]
    /\ SendOwn(s, Line(Srv, "401", << >>), "return")
    /\ UNCHANGED <<users, channels, created, dirty, msg, ulease, clease, ret, out, broken, eof, ncmds,
                   welcomes>>

\* target_in_channel, then send_to_channel before the target is removed.
KickTarget(s) ==
    /\ pc[s] = "kick_target"
    /\ LET t == loc[s].target IN
        IF ~Present(t) THEN Return(s, "ErrLookup")
        ELSE /\ CanReadUser(t)
             /\ IF users[t].channel = msg[s].params[1]
                THEN /\ Goto(s, "chan_send")
                     /\ loc' = [loc EXCEPT ![s].chan = msg[s].params[1],
                                           ![s].cont = "kick_clear"]
                ELSE SendOwn(s, Line(Srv, "441", << >>), "return")
             /\ UNCHANGED <<it, ulease, clease, ret>>
    /\ UNCHANGED <<users, channels, created, dirty, msg, out, broken, eof, ncmds, welcomes>>

\* users.get_mut(&target_id).ok_or(..)?.channel = None.
KickClear(s) ==
    /\ pc[s] = "kick_clear"
    /\ LET t == loc[s].target IN
        IF ~Present(t) THEN Return(s, "ErrLookup") /\ UNCHANGED users
        ELSE /\ CanWriteUser(t)
             /\ users' = [users EXCEPT ![t].channel = NoName]
             /\ Goto(s, "reg_chk")
             /\ loc' = [loc EXCEPT ![s].target = NoId]
             /\ UNCHANGED <<it, ulease, clease, ret>>
    /\ UNCHANGED <<channels, created, msg, out, broken, eof, ncmds, welcomes>>
    /\ Touch(s)

\* Command::List: channels.iter() reaches its next entry; the guard on the
\* entry lives through the loop body.  The names not in the table yet that
\* the iterator passed on the way are `skipped`.
ListNext(s) ==
    /\ pc[s] = "list_next"
    /\ \E ch \in channels \ loc[s].chseen, skipped \in SUBSET (JoinNames \ channels) :
        /\ CanReadChan(ch)
        /\ clease' = DropAll(clease, s) \cup {<<s, ch, "r">>}
        /\ loc' = [loc EXCEPT ![s].chan = ch, ![s].count = 0,
                              ![s].chseen = @ \cup {ch} \cup skipped]
    /\ Goto(s, "list_count")
    /\ UNCHANGED <<users, channels, created, dirty, msg, it, ulease, ret, out, broken, eof, ncmds,
                   welcomes>>

\* channels.iter() is exhausted: RPL_LISTEND.
ListEnd(s) ==
    /\ pc[s] = "list_next"
    /\ channels \subseteq loc[s].chseen
    /\ clease' = DropAll(clease, s)
    /\ Goto(s, "reply")
    /\ loc' = [loc EXCEPT ![s] = [LocInit EXCEPT !.reply = Line(Srv, "323", << >>),
                                                 !.cont = "reg_chk"]]
    /\ UNCHANGED <<users, channels, created, dirty, msg, it, ulease, ret, out, broken, eof, ncmds,
                   welcomes>>

\* A filter that passes every participant that is in some channel.
InChannel_Any(user, chan) == user.channel # NoName

\* The filter of the count: the participant's channel has the entry's name.
InChannel(user, chan) == user.channel = chan

\* users.iter().filter(..).count(): one entry of the count.
ListCount(s) ==
    /\ pc[s] = "list_count"
    /\ \E u \in Sessions, skipped \in SUBSET Sessions :
        /\ IterNext(s, u, skipped)
        /\ CanReadUser(u)
        /\ it' = [it EXCEPT ![s] = @ \cup {u} \cup skipped]
        /\ loc' = [loc EXCEPT ![s].count =
                        IF InChannel(users[u], loc[s].chan) THEN @ + 1 ELSE @]
    /\ UNCHANGED <<users, channels, created, dirty, pc, msg, ulease, clease, ret, out, broken, eof,
                   ncmds, welcomes>>

\* The count is complete: RPL_LIST for this channel, then the next entry.
ListCounted(s) ==
    /\ pc[s] = "list_count"
    /\ IterDone(s)
    /\ it' = [it EXCEPT ![s] = {}]
    /\ Goto(s, "reply")
    /\ loc' = [loc EXCEPT ![s].reply =
                              Line(Srv, "322", <<loc[s].chan, ToString(loc[s].count)>>),
                          ![s].cont = "list_next", ![s].count = 0, ![s].chan = NoName]
    /\ UNCHANGED <<users, channels, created, dirty, msg, ulease, clease, ret, out, broken, eof, ncmds,
                   welcomes>>

\* should_register without the look at is_registered.
ShouldRegister_Always(user) == UserPrefix(user) # NoPrefix

\* should_register, as computed after the match.
ShouldRegister(user) == ~user.is_registered /\ UserPrefix(user) # NoPrefix

\* The Ref taken for should_register kept alive (no drop(user)).
DropUser_Omitted(held, s) == held

\* drop(user): the Ref taken for should_register ends before get_mut.
DropUser(held, s) == held \ {<<s, s, "r">>}

\* The registration check after the match: users.get, should_register, drop.
RegCheck(s) ==
    /\ pc[s] = "reg_chk"
    /\ CanReadUser(s)
    /\ IF ShouldRegister(users[s])
       THEN /\ Jump(s, "reg_set")
            /\ ulease' = DropUser(ulease \cup {<<s, s, "r">>}, s)
            /\ UNCHANGED <<it, clease, ret>>
       ELSE Return(s, "Continue")
    /\ UNCHANGED <<users, channels, created, dirty, msg, out, broken, eof, ncmds, welcomes>>

\* The registration transition: is_registered = true, then the welcome is
\* written under the same guard; `?` returns the write's error.
RegSet(s) ==
    /\ pc[s] = "reg_set"
    /\ CanWriteUser(s)
    /\ users' = [users EXCEPT ![s].is_registered = TRUE]
    /\ out' = WriteTo(out, s, s,
                      Line(UserPrefix(users[s]), "001", <<users[s].nickname>>))
    /\ welcomes' = [welcomes EXCEPT ![s] = @ + 1]
    /\ Return(s, IF s \in broken THEN "ErrOwn" ELSE "Continue")
    /\ UNCHANGED <<channels, created, msg, broken, eof, ncmds>>
    /\ Touch(s)

\* ------------------------------------------------------------ the system ----
Next ==
    \E s \in Sessions :
        \/ Accept(s) \/ ReadLine(s) \/ ReadEmpty(s) \/ ReadFail(s) \/ ParseErr(s)
        \/ Ret(s) \/ Remove(s) \/ Start(s) \/ Reply(s)
        \/ UserCheck(s) \/ UserSet(s)
        \/ NickScan(s) \/ NickFree(s) \/ NickSet(s) \/ BcastAll(s) \/ BcastAllDone(s)
        \/ Away(s)
        \/ PmScan(s) \/ PmScanNone(s) \/ PmAway(s) \/ PmSend(s)
        \/ PmChan(s) \/ PmMember(s) \/ ChanSend(s) \/ ChanSendDone(s)
        \/ QuitCheck(s) \/ BcastExcl(s) \/ BcastExclDone(s)
        \/ JoinEntry(s) \/ JoinSet(s)
        \/ PartGet(s) \/ PartMember(s) \/ PartClear(s)
        \/ KickGet(s) \/ KickKicker(s) \/ KickScan(s) \/ KickScanNone(s)
        \/ KickTarget(s) \/ KickClear(s)
        \/ ListNext(s) \/ ListEnd(s) \/ ListCount(s) \/ ListCounted(s)
        \/ RegCheck(s) \/ RegSet(s)

Spec == Init /\ [][Next]_vars

\* ------------------------------------------------------------ properties ----
\* The writes of session s's current command on u's sink, in order.
LinesFrom(u, s) == SelectSeq(out[u], LAMBDA e : e.from = s)

\* The step is one of session s.
Stepped(s) == pc'[s] # pc[s] \/ it'[s] # it[s] \/ loc'[s] # loc[s]

NameSet(name) == name # NoName

\* C1: no two distinct participants in the table have the same nickname set.
C1_NicknameUnique ==
    \A p \in DOMAIN users, q \in DOMAIN users :
        (p # q /\ NameSet(users[p].nickname) /\ NameSet(users[q].nickname))
            => users[p].nickname # users[q].nickname

\* The positions of handle_connection outside handle_message.
ConnectionPcs == {"new", "read", "parse_err", "panicked", "remove", "done"}

NotRegistered451(s) == [from |-> s, line |-> Line(Srv, "451", << >>), ok |-> s \notin broken]

\* C2: every step a session takes for a command other than USER, NICK and
\* QUIT while its participant is not registered leaves all records and the
\* channels table as they are; the command writes one 451 reply to the own
\* sink and nothing to any other sink, and the session goes back to reading.
C2_GateOnlyReplies451 ==
    [][\A s \in Sessions :
        (/\ Present(s)
         /\ ~users[s].is_registered
         /\ pc[s] \notin ConnectionPcs
         /\ msg[s].word \notin {"USER", "NICK", "QUIT"}
         /\ Stepped(s))
        => /\ users' = users
           /\ channels' = channels
           /\ CASE pc[s] = "hm" -> out' = out /\ pc'[s] = "reply"
                [] pc[s] = "reply" ->
                      /\ out' = [out EXCEPT ![s] = Append(@, NotRegistered451(s))]
                      /\ pc'[s] = "ret"
                      /\ ret'[s] \in {"Continue", "ErrOwn"}
                [] pc[s] = "ret" ->
                      /\ out' = out
                      /\ pc'[s] = "read"
                      /\ \A u \in Sessions :
                            LinesFrom(u, s) =
                                IF u = s THEN <<NotRegistered451(s)>> ELSE << >>
                [] OTHER -> FALSE]_vars

\* C2 witness: an unregistered participant's JOIN was answered with 451.
C2_Witness ==
    \E s \in Sessions :
        /\ Present(s)
        /\ ~users[s].is_registered
        /\ msg[s].word = "JOIN"
        /\ pc[s] = "ret"
        /\ ret[s] = "Continue"
        /\ LinesFrom(s, s) = <<NotRegistered451(s)>>

Welcomes(o, s) == Len(SelectSeq(o[s], LAMBDA e : e.line.word = "001"))

\* C3: is_registered never goes back to false; it becomes true only on a
\* record with both names set, in the step that makes the one RPL_WELCOME
\* write of the session; no other step writes a welcome.
C3_RegisteredOnce ==
    [][\A s \in Sessions :
        LET was == Present(s) /\ users[s].is_registered
            now == s \in DOMAIN users' /\ users'[s].is_registered
        IN  /\ (was /\ s \in DOMAIN users') => now
            /\ (~was /\ now) =>
                  /\ Present(s)
                  /\ NameSet(users[s].nickname)
                  /\ NameSet(users[s].username)
                  /\ welcomes[s] = 0
                  /\ welcomes'[s] = 1
                  /\ out'[s] = Append(out[s],
                        [from |-> s,
                         line |-> Line(<<users[s].nickname, users[s].username>>,
                                       "001", <<users[s].nickname>>),
                         ok |-> s \notin broken])
            /\ ~(~was /\ now) =>
                  /\ welcomes'[s] = welcomes[s]
                  /\ Welcomes(out', s) <= Welcomes(out, s)
            /\ was => welcomes[s] = 1]_vars

\* C3 witness: a participant with a nickname sent USER and was registered
\* and welcomed by that command.
C3_Witness ==
    \E s \in Sessions :
        /\ Present(s)
        /\ pc[s] = "ret"
        /\ msg[s].word = "USER"
        /\ users[s].is_registered
        /\ welcomes[s] = 1
        /\ Welcomes(out, s) = 1

\* The welcome write was made and did not fail.
WelcomeSent(s) ==
    /\ welcomes[s] >= 1
    /\ \A i \in DOMAIN out[s] : out[s][i].line.word = "001" => out[s][i].ok

\* C4: is_registered is true iff both names are set and the welcome has
\* actually been sent to the participant's sink.
C4_RegisteredIffWelcomed ==
    \A s \in DOMAIN users :
        users[s].is_registered <=>
            (NameSet(users[s].nickname) /\ NameSet(users[s].username) /\ WelcomeSent(s))

\* C5: once a read returned zero bytes the session is on its way out (about
\* to remove its entry, or done), and a session that ended by a failed read
\* has left no entry behind.
C5_EofEndsSession ==
    \A s \in Sessions :
        /\ eof[s] => pc[s] \in {"remove", "done"}
        /\ pc[s] = "panicked" => ~Present(s)

\* A participant that has been in the table, untouched by its own session,
\* since before the commands in progress began.
Bystander(u) ==
    /\ Present(u)
    /\ pc[u] = "read"
    /\ ncmds[u] = 0
    /\ users[u] # NewUser

\* The recipients of the fan-out that session s's command makes.
Eligible(s, u) ==
    /\ u # s
    /\ \/ msg[s].word \in {"QUIT", "NICK"}
       \/ /\ msg[s].word \in {"JOIN", "PART", "KICK", "PRIVMSG"}
          /\ Len(msg[s].params) >= 1
          /\ IsChan(msg[s].params[1])
          /\ users[u].channel = msg[s].params[1]

\* C6: when a fan-out met a failing sink, every other eligible recipient
\* with a working sink has still been written the line.
C6_FanoutSurvivesWriteError ==
    \A s \in Sessions, u \in Sessions :
        (/\ pc[s] = "ret"
         /\ ret[s] = "ErrPeer"
         /\ Bystander(u)
         /\ u \notin broken
         /\ Eligible(s, u))
        => \E i \in DOMAIN out[u] : out[u][i].from = s /\ out[u][i].line = msg[s]

\* C7: after a failed write of the session's own reply (in the dispatcher or
\* on the parse-failure path) the session's next step is to leave the loop
\* and remove its entry, not to read again or end with the entry in place.
C7_OwnWriteErrorEndsSession ==
    [][\A s \in Sessions :
        /\ (pc[s] = "ret" /\ ret[s] = "ErrOwn" /\ pc'[s] # pc[s])
              => pc'[s] = "remove"
        /\ (pc[s] = "parse_err" /\ s \in broken /\ pc'[s] # pc[s])
              => pc'[s] = "remove"]_vars

\* C8: handle_message returns Quit for every QUIT.
C8_QuitReturnsQuit ==
    \A s \in Sessions :
        (pc[s] = "ret" /\ msg[s].word = "QUIT") => ret[s] = "Quit"

QuitAck(s) == [from |-> s, line |-> Line(Srv, "ERROR", << >>), ok |-> s \notin broken]

\* C9: a handled QUIT wrote the ERROR acknowledgement, and nothing else, to
\* the originator; when the originator is registered every other participant
\* has been written the QUIT line once, and when it is not, nobody else has
\* been written anything.
C9_QuitRouting ==
    \A s \in Sessions :
        (pc[s] = "ret" /\ msg[s].word = "QUIT" /\ Present(s))
        => /\ LinesFrom(s, s) = <<QuitAck(s)>>
           /\ \A u \in Sessions \ {s} :
                IF users[s].is_registered
                THEN Bystander(u) =>
                        LinesFrom(u, s) =
                            <<[from |-> s, line |-> msg[s], ok |-> u \notin broken]>>
                ELSE LinesFrom(u, s) = << >>

\* The guards on `users` entries the next step of session s asks for.
WantsUser(s) ==
    LET t == loc[s].target
        rest == DOMAIN users \ it[s]
    IN  CASE pc[s] \in {"hm", "user_chk", "pm_member", "quit_chk", "part_member",
                        "kick_kicker", "reg_chk"} -> {<<s, "r">>}
          [] pc[s] \in {"reply", "user_set", "nick_set", "away", "join_set",
                        "part_clear", "reg_set", "parse_err", "remove"} -> {<<s, "w">>}
          [] pc[s] \in {"pm_away", "kick_target"} ->
                IF Present(t) THEN {<<t, "r">>} ELSE {}
          [] pc[s] \in {"pm_send", "kick_clear"} ->
                IF Present(t) THEN {<<t, "w">>} ELSE {}
          [] pc[s] \in {"nick_scan", "pm_scan", "kick_scan", "list_count"} ->
                {<<u, "r">> : u \in rest}
          [] pc[s] \in {"bcast_all", "bcast_excl", "chan_send"} ->
                {<<u, "w">> : u \in rest}
          [] OTHER -> {}

\* The guards on `channels` entries the next step of session s asks for.
WantsChan(s) ==
    CASE pc[s] \in {"pm_chan", "part_get", "kick_get"} -> {<<msg[s].params[1], "r">>}
      [] pc[s] = "join_entry" -> {<<msg[s].params[1], "w">>}
      [] pc[s] = "list_next" -> {<<c, "r">> : c \in channels \ loc[s].chseen}
      [] OTHER -> {}

\* A wanted guard cannot be granted while lease l is held.
Conflict(want, l) == l[2] = want[1] /\ (want[2] = "w" \/ l[3] = "w")

\* Session s waits for a lease that session t holds.
WaitsFor(s, t) ==
    \/ \E w \in WantsUser(s), l \in ulease : l[1] = t /\ Conflict(w, l)
    \/ \E w \in WantsChan(s), l \in clease : l[1] = t /\ Conflict(w, l)

\* C10: a session that holds a lease on a participant record is not about to
\* take any other lease, and there is no set of sessions in which each waits
\* for a lease held by a session of the set.
C10_NoLeaseCycle ==
    /\ \A s \in Sessions :
          (\E l \in ulease : l[1] = s) => (WantsUser(s) = {} /\ WantsChan(s) = {})
    /\ \A W \in SUBSET Sessions :
          W # {} => \E s \in W : \A t \in W : ~WaitsFor(s, t)

\* C10 witness: a JOIN waits for the channel entry while a channel PRIVMSG,
\* holding the entry's guard, is taking guards on participant records.
C10_Witness ==
    \E s \in Sessions, t \in Sessions :
        /\ s # t
        /\ msg[s].word = "PRIVMSG"
        /\ pc[s] = "chan_send"
        /\ it[s] # {}
        /\ pc[t] = "join_entry"
        /\ <<s, msg[t].params[1], "r">> \in clease
        /\ WaitsFor(t, s)

\* ------------------------------------------------- the writes to a sink ----
\* A closer look at the writes: write_all hands the bytes of a line to the
\* socket in pieces, so a line is written here as two chunks, in two steps.
\* The sessions run the writing functions on their own, one call after the
\* other, as handle_message calls them for the lines of the inbound stream.
MaxWrites == 2

WriteOps == {"send_to_user", "send_to_channel", "broadcast_message", "broadcast_to_all",
             "welcome"}

\* The position in the inbound stream of the line the session handles next.
NextCmd_Reversed(s) == MaxWrites - ncmds[s]

NextCmd(s) == ncmds[s] + 1

Chunk(s, line, part) == [from |-> s, line |-> line, part |-> part]

\* write_all puts the next bytes behind those already written to the sink.
Emit(o, u, chunk) == [o EXCEPT ![u] = Append(@, chunk)]

\* The filter of each of the three loops over users.iter_mut().
Selected(op, s, u) ==
    CASE op = "send_to_channel" -> u # s /\ users[u].channel = users[s].channel
      [] op = "broadcast_message" -> u # s
      [] OTHER -> TRUE

InitWrite ==
    /\ users = [s \in Sessions |->
                    [ProfileUser(s, "inc") EXCEPT
                        !.channel = IF s = NumSessions THEN "#d" ELSE "#c"]]
    /\ channels = Chans
    /\ created = [c \in JoinNames |-> IF c \in Chans THEN 1 ELSE 0]
    /\ dirty = [s \in Sessions |-> FALSE]
    /\ pc = [s \in Sessions |-> "w_idle"]
    /\ welcomes = [s \in Sessions |-> 1]
    /\ msg = [s \in Sessions |-> NoLine]
    /\ loc = [s \in Sessions |-> LocInit]
    /\ it = [s \in Sessions |-> {}]
    /\ ulease = {}
    /\ clease = {}
    /\ ret = [s \in Sessions |-> "None"]
    /\ out = [s \in Sessions |-> << >>]
    /\ broken = {}
    /\ eof = [s \in Sessions |-> FALSE]
    /\ ncmds = [s \in Sessions |-> 0]

\* handle_connection hands the next line to handle_message, which calls one
\* of the writing functions for it.
NextCall(s) ==
    /\ pc[s] = "w_idle"
    /\ s \in Active
    /\ ncmds[s] < MaxWrites
    /\ \E op \in WriteOps, t \in Sessions :
        /\ msg' = [msg EXCEPT ![s] = Line(<<NickOf(s)>>, op, <<NextCmd(s)>>)]
        /\ loc' = [loc EXCEPT ![s].target = IF op = "send_to_user" THEN t ELSE NoId]
        /\ Goto(s, IF op = "send_to_user" THEN "w_user"
                   ELSE IF op = "welcome" THEN "w_welcome" ELSE "w_loop")
    /\ ncmds' = [ncmds EXCEPT ![s] = @ + 1]
    /\ UNCHANGED <<users, channels, created, dirty, it, ulease, clease, ret, out, broken, eof, welcomes>>

\* send_to_user: users.get_mut(&id), then write_all starts under the guard.
SendToUserBegin(s) ==
    /\ pc[s] = "w_user"
    /\ CanWriteUser(loc[s].target)
    /\ ulease' = ulease \cup {<<s, loc[s].target, "w">>}
    /\ out' = Emit(out, loc[s].target, Chunk(s, msg[s], 1))
    /\ Goto(s, "w_user_mid")
    /\ UNCHANGED <<users, channels, created, dirty, msg, loc, it, clease, ret, broken, eof, ncmds, welcomes>>

\* send_to_user: write_all finishes and the guard ends with the statement.
SendToUserEnd(s) ==
    /\ pc[s] = "w_user_mid"
    /\ out' = Emit(out, loc[s].target, Chunk(s, msg[s], 2))
    /\ ulease' = DropAll(ulease, s)
    /\ loc' = [loc EXCEPT ![s].target = NoId]
    /\ Goto(s, "w_idle")
    /\ UNCHANGED <<users, channels, created, dirty, msg, it, clease, ret, broken, eof, ncmds, welcomes>>

\* The welcome: users.get_mut(&user_id), then write_all starts under it.
WelcomeBegin(s) ==
    /\ pc[s] = "w_welcome"
    /\ CanWriteUser(s)
    /\ ulease' = ulease \cup {<<s, s, "w">>}
    /\ out' = Emit(out, s, Chunk(s, msg[s], 1))
    /\ Goto(s, "w_welcome_mid")
    /\ UNCHANGED <<users, channels, created, dirty, msg, loc, it, clease, ret, broken, eof, ncmds, welcomes>>

\* The welcome: write_all finishes; the guard ends with the block.
WelcomeEnd(s) ==
    /\ pc[s] = "w_welcome_mid"
    /\ out' = Emit(out, s, Chunk(s, msg[s], 2))
    /\ ulease' = DropAll(ulease, s)
    /\ Goto(s, "w_idle")
    /\ UNCHANGED <<users, channels, created, dirty, msg, loc, it, clease, ret, broken, eof, ncmds, welcomes>>

\* One entry of `for mut entry in users.iter_mut()` that passes the loop's
\* filter: write_all starts under the entry's guard.
LoopWriteBegin(s) ==
    /\ pc[s] = "w_loop"
    /\ \E u \in Sessions :
        /\ IterNext(s, u, {})
        /\ Selected(msg[s].word, s, u)
        /\ CanWriteUser(u)
        /\ ulease' = ulease \cup {<<s, u, "w">>}
        /\ out' = Emit(out, u, Chunk(s, msg[s], 1))
        /\ loc' = [loc EXCEPT ![s].target = u]
    /\ Goto(s, "w_loop_mid")
    /\ UNCHANGED <<users, channels, created, dirty, msg, it, clease, ret, broken, eof, ncmds, welcomes>>

\* write_all finishes and the loop goes on: the entry's guard ends.
LoopWriteEnd(s) ==
    /\ pc[s] = "w_loop_mid"
    /\ out' = Emit(out, loc[s].target, Chunk(s, msg[s], 2))
    /\ ulease' = DropAll(ulease, s)
    /\ it' = [it EXCEPT ![s] = @ \cup {loc[s].target}]
    /\ loc' = [loc EXCEPT ![s].target = NoId]
    /\ Goto(s, "w_loop")
    /\ UNCHANGED <<users, channels, created, dirty, msg, clease, ret, broken, eof, ncmds, welcomes>>

\* One entry the loop's filter leaves out: nothing is written.
LoopSkip(s) ==
    /\ pc[s] = "w_loop"
    /\ \E u \in Sessions :
        /\ IterNext(s, u, {})
        /\ ~Selected(msg[s].word, s, u)
        /\ CanWriteUser(u)
        /\ it' = [it EXCEPT ![s] = @ \cup {u}]
    /\ UNCHANGED <<users, channels, created, dirty, pc, msg, loc, ulease, clease, ret, out, broken, eof,
                   ncmds, welcomes>>

\* The loop is through: Ok(()).
LoopDone(s) ==
    /\ pc[s] = "w_loop"
    /\ IterDone(s)
    /\ it' = [it EXCEPT ![s] = {}]
    /\ Goto(s, "w_idle")
    /\ UNCHANGED <<users, channels, created, dirty, msg, loc, ulease, clease, ret, out, broken, eof, ncmds,
                   welcomes>>

NextWrite ==
    \E s \in Sessions :
        \/ NextCall(s)
        \/ SendToUserBegin(s) \/ SendToUserEnd(s)
        \/ WelcomeBegin(s) \/ WelcomeEnd(s)
        \/ LoopWriteBegin(s) \/ LoopWriteEnd(s) \/ LoopSkip(s) \/ LoopDone(s)

SpecWrite == InitWrite /\ [][NextWrite]_vars

\* The sessions in the middle of a write_all on u's sink.
WritingTo(u) ==
    {s \in Sessions : pc[s] \in {"w_user_mid", "w_welcome_mid", "w_loop_mid"}
                      /\ (IF pc[s] = "w_welcome_mid" THEN s ELSE loc[s].target) = u}

\* C11: at most one session is in the middle of a write to a sink, that
\* session holds the participant's write lease, and on every sink the two
\* chunks of a line lie next to each other.
C11_WritesSerialized ==
    \A u \in Sessions :
        /\ Cardinality(WritingTo(u)) <= 1
        /\ \A s \in WritingTo(u) : <<s, u, "w">> \in ulease
        /\ \A i \in DOMAIN out[u] :
              /\ out[u][i].part = 1 =>
                    (i = Len(out[u]) \/
                        out[u][i + 1] = [out[u][i] EXCEPT !.part = 2])
              /\ out[u][i].part = 2 =>
                    (i > 1 /\ out[u][i - 1] = [out[u][i] EXCEPT !.part = 1])

\* C11 witness: one session is in the middle of a write to a sink that
\* another session is about to write to, and has written to before.
C11_Witness ==
    \E u \in Sessions, s \in Sessions, t \in Sessions :
        /\ s # t
        /\ WritingTo(u) = {s}
        /\ pc[t] = "w_user"
        /\ loc[t].target = u
        /\ \E i \in DOMAIN out[u] : out[u][i].from = t

\* The positions in the originator's inbound stream of the lines that
\* session s started to write to u's sink, in the order of the sink.
IssueOrder(u, s) == SelectSeq(out[u], LAMBDA e : e.from = s /\ e.part = 1)

\* C12: on every sink the lines of one originator lie in the order in which
\* the originator issued them.
C12_OriginatorOrder ==
    \A u \in Sessions, s \in Sessions :
        \A i \in DOMAIN IssueOrder(u, s), j \in DOMAIN IssueOrder(u, s) :
            i < j => IssueOrder(u, s)[i].line.params[1] < IssueOrder(u, s)[j].line.params[1]

\* C12 witness: a sink holds two lines of one originator with a line of
\* another originator between them.
C12_Witness ==
    \E u \in Sessions, s \in Sessions, t \in Sessions :
        /\ s # t
        /\ Len(IssueOrder(u, s)) = 2
        /\ \E i \in DOMAIN out[u], j \in DOMAIN out[u], k \in DOMAIN out[u] :
              /\ i < j /\ j < k
              /\ out[u][i].from = s
              /\ out[u][j].from = t
              /\ out[u][k].from = s
              /\ out[u][i].line # out[u][k].line

\* C13: for every name at most one Channel record is ever put into the
\* table, the name is in the table exactly when its record was made, and so
\* every participant whose channel carries the name refers to that record.
C13_ChannelCreatedOnce ==
    \A c \in JoinNames :
        /\ created[c] <= 1
        /\ c \in channels <=> created[c] = 1
        /\ \A u \in DOMAIN users : users[u].channel = c => created[c] = 1

\* C13 witness: of two sessions joining a name nobody is in, one has
\* made the record and the other is about to call entry() for the name.
C13_Witness ==
    \E s \in Sessions, t \in Sessions, c \in Chans :
        /\ s # t
        /\ pc[s] = "join_set" /\ msg[s].params[1] = c
        /\ pc[t] = "join_entry" /\ msg[t].params[1] = c
        /\ created[c] = 1
        /\ \A u \in DOMAIN users : users[u].channel # c

\* C14: the channel of every participant in the table is a name in the
\* channels table.
C14_ChannelInRegistry ==
    \A u \in DOMAIN users :
        users[u].channel # NoName => users[u].channel \in channels

\* C14 witness: a JOIN has made its sender a member of the channel.
C14_Witness ==
    \E s \in Sessions :
        /\ pc[s] = "ret"
        /\ ret[s] = "Continue"
        /\ msg[s].word = "JOIN"
        /\ Len(msg[s].params) = 1
        /\ users[s].channel = msg[s].params[1]

\* C15: every name in the channels table and every participant's channel
\* begins with '#'.
C15_ChannelNamesWellFormed ==
    /\ \A c \in channels : IsChan(c)
    /\ \A u \in DOMAIN users : users[u].channel # NoName => IsChan(users[u].channel)

\* C16: after a registered participant's two-parameter PRIVMSG to a name
\* beginning with '#': when it was answered with 403 or 404 that is the one
\* line of the command and nobody else was written anything; otherwise the
\* line was written once to every participant in that channel, to nobody
\* outside it, and not to the originator.
C16_ChannelPrivmsgRouting ==
    \A s \in Sessions :
        (/\ pc[s] = "ret"
         /\ Present(s)
         /\ users[s].is_registered
         /\ msg[s].word = "PRIVMSG"
         /\ Len(msg[s].params) = 2
         /\ IsChan(msg[s].params[1]))
        => LET own == LinesFrom(s, s)
               rejected == \E i \in DOMAIN own : own[i].line.word \in {"403", "404"}
           IN  /\ rejected => Len(own) = 1
               /\ \A i \in DOMAIN own : own[i].line.word # "PRIVMSG"
               /\ \A u \in Sessions \ {s} :
                     Bystander(u) =>
                        LinesFrom(u, s) =
                            IF ~rejected /\ users[u].channel = msg[s].params[1]
                            THEN <<[from |-> s, line |-> msg[s], ok |-> u \notin broken]>>
                            ELSE << >>

\* The PRIVMSG lines of session s's current command were written to these sinks.
Delivered(s) ==
    {u \in Sessions : \E i \in DOMAIN LinesFrom(u, s) : LinesFrom(u, s)[i].line.word = "PRIVMSG"}

HasReply(s, code) ==
    \E i \in DOMAIN LinesFrom(s, s) : LinesFrom(s, s)[i].line.word = code

\* C18: after a registered participant's two-parameter PRIVMSG to a name
\* that does not begin with '#' (its own sink working), either it was
\* answered with 401 and the line was delivered to nobody, or it was not
\* answered with 401 and the line was delivered to exactly one participant.
C18_DirectPrivmsgOutcome ==
    \A s \in Sessions :
        (/\ pc[s] = "ret"
         /\ Present(s)
         /\ users[s].is_registered
         /\ s \notin broken
         /\ msg[s].word = "PRIVMSG"
         /\ Len(msg[s].params) = 2
         /\ ~IsChan(msg[s].params[1]))
        => \/ HasReply(s, "401") /\ Delivered(s) = {}
           \/ ~HasReply(s, "401") /\ Cardinality(Delivered(s)) = 1

\* The numerics that reject a command.
ErrorNumerics == {"431", "433", "462", "461", "403", "442", "401", "441", "411", "404"}

Rejected(s) ==
    /\ pc[s] = "ret"
    /\ msg[s].word \in {"USER", "NICK", "JOIN", "PART", "KICK", "PRIVMSG"}
    /\ \E code \in ErrorNumerics : HasReply(s, code)

\* C19: when handle_message returns from a USER, NICK, JOIN, PART, KICK or
\* PRIVMSG that it answered with an error numeric, that reply is the only
\* line the command wrote to the originator, the command wrote nothing to
\* any other sink, it changed no participant record and not the channels
\* table, and it did not return Quit (the session reads on).
C19_RejectedLeavesState ==
    \A s \in Sessions :
        Rejected(s)
        => /\ ~dirty[s]
           /\ Len(LinesFrom(s, s)) = 1
           /\ \A u \in Sessions \ {s} : LinesFrom(u, s) = << >>
           /\ ret[s] \in {"Continue", "ErrOwn"}

\* C19 witness: a NICK for a nickname another participant holds was
\* answered with 433 and the requester's nickname is not that nickname.
C19_Witness ==
    \E s \in Sessions :
        /\ Rejected(s)
        /\ msg[s].word = "NICK"
        /\ HasReply(s, "433")
        /\ ret[s] = "Continue"
        /\ users[s].nickname # msg[s].params[1]
        /\ \E u \in DOMAIN users \ {s} : users[u].nickname = msg[s].params[1]

\* C20: after NICK n, with no other session having read a line, the
\* requester was answered with 433 exactly when a participant other than
\* the requester holds n, and otherwise its nickname is n.
C20_NickInUseByOther ==
    \A s \in Sessions :
        (/\ pc[s] = "ret"
         /\ msg[s].word = "NICK"
         /\ Len(msg[s].params) >= 1
         /\ \A u \in Sessions \ {s} : ncmds[u] = 0 /\ pc[u] \in {"new", "read"})
        => LET n == msg[s].params[1]
               held == \E u \in DOMAIN users \ {s} : users[u].nickname = n
           IN  /\ HasReply(s, "433") <=> held
               /\ ~held => users[s].nickname = n

\* ------------------------------------------------------- lines as text ----
\* The bytes of a line, one character per element, for what message.rs does
\* with them: Message::from on the way in, Display and to_irc on the way out.
SP == " "
CRLF == <<"\r", "\n">>
Whitespace == {" ", "\r", "\n", "\t"}

HasChar(text, c) == \E i \in DOMAIN text : text[i] = c

\* str::trim_end
RECURSIVE trim_end(_)
trim_end(text) ==
    IF text # << >> /\ text[Len(text)] \in Whitespace
    THEN trim_end(SubSeq(text, 1, Len(text) - 1))
    ELSE text

\* str::split_once(" ") with (input, "") in place of None.
get_next_word(input) ==
    IF HasChar(input, SP)
    THEN LET i == CHOOSE k \in DOMAIN input :
                      input[k] = SP /\ \A j \in 1..(k - 1) : input[j] # SP
         IN  <<SubSeq(input, 1, i - 1), SubSeq(input, i + 1, Len(input))>>
    ELSE <<input, << >> >>

\* char::to_uppercase on the letters the lines checked contain.
ToUpper(c) ==
    CASE c = "q" -> "Q" [] c = "u" -> "U" [] c = "i" -> "I" [] c = "t" -> "T"
      [] OTHER -> c

\* The command words: Command::from_str matches them, and Display writes
\* the variant's name in upper case, which is the same word.
CommandText ==
    [USER |-> <<"U", "S", "E", "R">>, NICK |-> <<"N", "I", "C", "K">>,
     JOIN |-> <<"J", "O", "I", "N">>, KICK |-> <<"K", "I", "C", "K">>,
     PART |-> <<"P", "A", "R", "T">>,
     PRIVMSG |-> <<"P", "R", "I", "V", "M", "S", "G">>,
     LIST |-> <<"L", "I", "S", "T">>, AWAY |-> <<"A", "W", "A", "Y">>,
     QUIT |-> <<"Q", "U", "I", "T">>, PING |-> <<"P", "I", "N", "G">>,
     PONG |-> <<"P", "O", "N", "G">>, ERROR |-> <<"E", "R", "R", "O", "R">>,
     UNKNOWN |-> <<"U", "N", "K", "N", "O", "W", "N">>]

\* Command::from_str
from_str(input) ==
    LET up == [k \in DOMAIN input |-> ToUpper(input[k])]
        known == {c \in DOMAIN CommandText \ {"UNKNOWN"} : CommandText[c] = up}
    IN  IF known = {} THEN "UNKNOWN" ELSE CHOOSE c \in known : TRUE

\* The parameter loop of Message::from: a parameter that starts with ':'
\* takes the rest of the line without the ':' and ends the loop.
RECURSIVE ParseParams(_)
ParseParams(raw) ==
    IF raw = << >> THEN << >>
    ELSE IF Head(raw) = ":" THEN <<Tail(raw)>>
    ELSE <<get_next_word(raw)[1]>> \o ParseParams(get_next_word(raw)[2])

\* Message::from.  The prefix is an Option: << >> for None, <<p>> for Some(p).
MessageFrom(raw) ==
    LET trimmed == trim_end(raw)
        hasPrefix == trimmed # << >> /\ Head(trimmed) = ":"
        afterPrefix == IF hasPrefix THEN get_next_word(Tail(trimmed))[2] ELSE trimmed
        prefix == IF hasPrefix THEN <<get_next_word(Tail(trimmed))[1]>> ELSE << >>
        command == get_next_word(afterPrefix)[1]
    IN  IF command = << >>
        THEN [ok |-> FALSE, message |-> NoLine]
        ELSE [ok |-> TRUE,
              message |-> Line(prefix, from_str(command),
                               ParseParams(get_next_word(afterPrefix)[2]))]

RECURSIVE Join(_, _)
Join(texts, sep) ==
    IF texts = << >> THEN << >>
    ELSE IF Len(texts) = 1 THEN texts[1]
    ELSE texts[1] \o sep \o Join(Tail(texts), sep)

\* A parameter is written after a ':' only when it contains a space.
Argument(x) == IF HasChar(x, SP) THEN <<":">> \o x ELSE x

\* impl Display for Message
MessageFmt(m) ==
    LET arguments == Join([k \in DOMAIN m.params |-> Argument(m.params[k])], <<SP>>)
    IN  IF m.prefix # << >>
        THEN <<":">> \o m.prefix[1] \o <<SP>> \o CommandText[m.word] \o <<SP>> \o arguments
        ELSE CommandText[m.word] \o <<SP>> \o arguments

\* ToIrc::to_irc
to_irc(text) == text \o CRLF

\* The address a participant's prefix ends with.
Address == <<"h">>

\* User::prefix as text: nickname!username@address once both names are set.
PrefixText(user) ==
    IF user.nickname # NoName /\ user.username # NoName
    THEN << <<user.nickname, "!", user.username, "@">> \o Address >>
    ELSE << >>

\* The lines checked: an optional client prefix, a command word (or none),
\* an optional target after one or two spaces, an optional last parameter,
\* an optional line ending.
RawLines ==
    {pre \o cmd \o mid \o last \o eol :
        pre \in {<< >>, <<":", "x", " ">>},
        cmd \in {CommandText["PRIVMSG"], CommandText["QUIT"], <<"q", "u", "i", "t">>, << >>},
        mid \in {<< >>, <<" ", "#", "r">>, <<" ", " ", "#", "r">>},
        last \in {<< >>, <<" ", ":", "h", "i">>, <<" ", ":", "h", " ", "i">>,
                  <<" ", "h", "i">>},
        eol \in {<< >>, CRLF}}

\* The commands whose line handle_message passes on to other participants.
Relayed == {"NICK", "PRIVMSG", "QUIT", "JOIN", "PART", "KICK"}

\* Session 1 has read a line; session 2 is a participant that is sent
\* whatever session 1's command passes on.
InitLine ==
    /\ users = [s \in 1..2 |-> ProfileUser(s, "inc")]
    /\ channels = {"#c"}
    /\ created = [c \in JoinNames |-> IF c = "#c" THEN 1 ELSE 0]
    /\ dirty = [s \in Sessions |-> FALSE]
    /\ pc = [s \in Sessions |-> IF s = 1 THEN "l_parse" ELSE IF s = 2 THEN "read" ELSE "new"]
    /\ welcomes = [s \in Sessions |-> IF s \in 1..2 THEN 1 ELSE 0]
    /\ msg = [s \in Sessions |-> NoLine]
    /\ \E raw \in RawLines : loc = [s \in Sessions |-> [message_str |-> raw]]
    /\ it = [s \in Sessions |-> {}]
    /\ ulease = {}
    /\ clease = {}
    /\ ret = [s \in Sessions |-> "None"]
    /\ out = [s \in Sessions |-> << >>]
    /\ broken = {}
    /\ eof = [s \in Sessions |-> FALSE]
    /\ ncmds = [s \in Sessions |-> 0]

\* match Message::from(&message_str)
LineParse(s) ==
    /\ pc[s] = "l_parse"
    /\ LET parsed == MessageFrom(loc[s].message_str)
       IN  /\ msg' = [msg EXCEPT ![s] = parsed.message]
           /\ Goto(s, IF parsed.ok THEN "l_prefix" ELSE "l_done")
    /\ ncmds' = [ncmds EXCEPT ![s] = @ + 1]
    /\ UNCHANGED <<users, channels, created, dirty, loc, it, ulease, clease, ret, out, broken,
                   eof, welcomes>>

\* message.prefix = user.prefix()
LinePrefix(s) ==
    /\ pc[s] = "l_prefix"
    /\ msg' = [msg EXCEPT ![s].prefix = PrefixText(users[s])]
    /\ Goto(s, IF msg[s].word \in Relayed THEN "l_relay" ELSE "l_done")
    /\ UNCHANGED <<users, channels, created, dirty, loc, it, ulease, clease, ret, out, broken,
                   eof, ncmds, welcomes>>

\* user.stream.write_all(message.to_irc().as_bytes()) for another participant.
LineRelay(s) ==
    /\ pc[s] = "l_relay"
    /\ out' = [u \in Sessions |->
                  IF u # s /\ Present(u)
                  THEN Append(out[u], [from |-> s, line |-> to_irc(MessageFmt(msg[s])),
                                       ok |-> TRUE])
                  ELSE out[u]]
    /\ Goto(s, "l_done")
    /\ UNCHANGED <<users, channels, created, dirty, msg, loc, it, ulease, clease, ret, broken,
                   eof, ncmds, welcomes>>

NextLine == \E s \in Sessions : LineParse(s) \/ LinePrefix(s) \/ LineRelay(s)

SpecLine == InitLine /\ [][NextLine]_vars

\* The line as the client sent it: no prefix of its own, the command word
\* in upper case, one space between the words, its last parameter after ':'.
SentWithTrailing(raw) ==
    /\ raw # << >>
    /\ Head(raw) # ":"
    /\ CommandText[from_str(get_next_word(trim_end(raw))[1])] = get_next_word(trim_end(raw))[1]
    /\ HasChar(raw, ":")

\* C17: a line session s passed on to another participant is ':' and s's
\* prefix nickname!username@address, a space, the line as the client sent
\* it, with the ':' before its last parameter, and CR-LF.
C17_RelayedAsSent ==
    \A s \in Sessions, u \in Sessions :
        (pc[s] = "l_done" /\ SentWithTrailing(loc[s].message_str))
        => \A k \in DOMAIN LinesFrom(u, s) :
              LinesFrom(u, s)[k].line =
                  <<":">> \o PrefixText(users[s])[1] \o <<SP>>
                      \o trim_end(loc[s].message_str) \o CRLF


\* The lines with command word `word` that session s's current command
\* wrote to u's sink.
WordLines(u, s, word) == SelectSeq(LinesFrom(u, s), LAMBDA e : e.line.word = word)

\* Session s is at the return of a NICK that was not rejected.
NickDone(s) ==
    /\ pc[s] = "ret"
    /\ Present(s)
    /\ msg[s].word = "NICK"
    /\ Len(msg[s].params) >= 1
    /\ ~HasReply(s, "433")

\* The participant was registered before its current command: it is
\* registered and the command did not write the welcome.
RegisteredBefore(s) == users[s].is_registered /\ ~HasReply(s, "001")

\* C21: after a NICK that was not rejected, when the originator was
\* registered before it the NICK line has been written once to the
\* originator (its own sink working) and once to every other participant
\* of the table, and when it was not, no NICK line has been written to
\* anyone.
C21_NickBroadcast ==
    \A s \in Sessions :
        (NickDone(s) /\ s \notin broken)
        => \A u \in Sessions :
              IF RegisteredBefore(s)
              THEN (u = s \/ Bystander(u)) => Len(WordLines(u, s, "NICK")) = 1
              ELSE WordLines(u, s, "NICK") = << >>


\* Session s is at the return of a command `word` with at least n
\* parameters that was answered with no error numeric.
Accepted(s, word, n) ==
    /\ pc[s] = "ret"
    /\ Present(s)
    /\ msg[s].word = word
    /\ Len(msg[s].params) >= n
    /\ \A code \in ErrorNumerics \cup {"451"} : ~HasReply(s, code)

\* C22: after a KICK that passed its checks, a target other than the
\* kicker that stayed in the table has been written the KICK line once and
\* is no longer in the named channel, and the kicker still is.
C22_KickOrdering ==
    \A s \in Sessions, t \in Sessions :
        (/\ Accepted(s, "KICK", 2)
         /\ t # s
         /\ Bystander(t)
         /\ users[t].nickname = msg[s].params[2])
        => /\ Len(WordLines(t, s, "KICK")) = 1
           /\ users[t].channel # msg[s].params[1]
           /\ users[s].channel = msg[s].params[1]


\* No session but s has read a line.
OthersQuiet(s) == \A u \in Sessions \ {s} : ncmds[u] = 0 /\ pc[u] \in {"new", "read"}

\* C23: after a PART that passed its checks the originator is in no
\* channel and has been written nothing, the channel is still in the
\* table, and the PART line has been written once to every other
\* participant in the channel and to nobody outside it.
C23_PartRouting ==
    \A s \in Sessions :
        Accepted(s, "PART", 1)
        => /\ users[s].channel = NoName
           /\ LinesFrom(s, s) = << >>
           /\ msg[s].params[1] \in channels
           /\ \A u \in Sessions :
                 (u # s /\ Bystander(u))
                 => Len(WordLines(u, s, "PART")) =
                        IF users[u].channel = msg[s].params[1] THEN 1 ELSE 0

\* C24: after a JOIN with a channel name, no other session having read a
\* line, the originator's channel is the named one, which is in the table,
\* the originator has been written no JOIN line, and the JOIN line has been
\* written once to every other participant in the channel and to nobody
\* outside it.
C24_JoinRouting ==
    \A s \in Sessions :
        (/\ Accepted(s, "JOIN", 1)
         /\ IsChan(msg[s].params[1])
         /\ OthersQuiet(s))
        => /\ users[s].channel = msg[s].params[1]
           /\ msg[s].params[1] \in channels
           /\ WordLines(s, s, "JOIN") = << >>
           /\ \A u \in Sessions :
                 (u # s /\ Bystander(u))
                 => Len(WordLines(u, s, "JOIN")) =
                        IF users[u].channel = msg[s].params[1] THEN 1 ELSE 0


\* RPL_LIST for channel c as LIST computes it from the table.
ListReply(s, c) ==
    [from |-> s,
     line |-> Line(Srv, "322",
                   <<c, ToString(Cardinality({u \in DOMAIN users : users[u].channel = c}))>>),
     ok |-> TRUE]

\* Session s is working on a LIST it sent as a registered participant with
\* a working sink, no other session having read a line.
ListRunning(s) ==
    /\ Present(s)
    /\ pc[s] \notin ConnectionPcs
    /\ msg[s].word = "LIST"
    /\ users[s].is_registered
    /\ s \notin broken
    /\ OthersQuiet(s)

ListDone(s) == ListRunning(s) /\ pc[s] = "ret"

\* C25: such a LIST writes to nobody but its originator and changes no
\* record and no channel; every RPL_LIST it writes carries a channel's name
\* and the number of participants in that channel; and when it returns it
\* has written one RPL_LIST per channel of the table, then one RPL_LISTEND
\* as its last line, and returns Continue.
C25_ListReplies ==
    \A s \in Sessions :
        ListRunning(s)
        => LET own == LinesFrom(s, s)
               n == Cardinality(channels)
           IN  /\ \A u \in Sessions \ {s} : LinesFrom(u, s) = << >>
               /\ ~dirty[s]
               /\ \A k \in DOMAIN own :
                     own[k].line.word = "322" => own[k] = ListReply(s, own[k].line.params[1])
               /\ pc[s] = "ret"
                    => /\ Len(own) = n + 1
                       /\ own[n + 1] = [from |-> s, line |-> Line(Srv, "323", << >>),
                                        ok |-> TRUE]
                       /\ \A c \in channels :
                             Cardinality({k \in 1..n : own[k] = ListReply(s, c)}) = 1
                       /\ ret[s] = "Continue"

\* C25 witness: a LIST has been answered for a table of two channels, one
\* with a member and one with none.
C25_Witness ==
    \E s \in Sessions :
        /\ ListDone(s)
        /\ Cardinality(channels) = 2
        /\ \E c \in channels : \E u \in DOMAIN users : users[u].channel = c
        /\ \E c \in channels : \A u \in DOMAIN users : users[u].channel # c
        /\ Len(LinesFrom(s, s)) = 3


\* The non-empty words of a text, split at its spaces.
RECURSIVE Words(_)
Words(text) ==
    IF text = << >> THEN << >>
    ELSE IF get_next_word(text)[1] = << >> THEN Words(get_next_word(text)[2])
    ELSE <<get_next_word(text)[1]>> \o Words(get_next_word(text)[2])

\* C26: for a line without ':' that parses, the parameters are the
\* non-empty words after the command word, whatever the number of spaces
\* between them.
C26_ParserSkipsEmptyTokens ==
    \A s \in Sessions :
        (/\ pc[s] \in {"l_prefix", "l_relay", "l_done"}
         /\ MessageFrom(loc[s].message_str).ok
         /\ ~HasChar(loc[s].message_str, ":"))
        => msg[s].params = Tail(Words(trim_end(loc[s].message_str)))


\* ------------------------------------------------------------ the codec ----
\* Display for Message and for Response applied to structured values, and
\* Message::from applied to the lines they produce.
MaxParams == 2

\* Parameter texts: empty, a word, ':', with a space, a space, ':' first.
ParamTexts == {<< >>, <<"a">>, <<":">>, <<"a", " ", "b">>, <<" ">>, <<":", "a">>}

ParamLists == UNION {[1..n -> ParamTexts] : n \in 0..MaxParams}

Messages ==
    {Line(p, c, ps) : p \in {<< >>, << <<"x">> >>, << <<"x", " ">> >>},
                      c \in {"QUIT", "PRIVMSG"}, ps \in ParamLists}

\* Response::new with RPL_WELCOME (1) or ERR_NOSUCHNICK (401).
Responses ==
    {[prefix |-> <<"s">>, code |-> c, params |-> ps] : c \in {1, 401}, ps \in ParamLists}

\* {:03} of the reply code.
CodeText(code) ==
    <<ToString(code \div 100), ToString((code \div 10) % 10), ToString(code % 10)>>

\* impl Display for Response
ResponseFmt(r) ==
    <<":">> \o r.prefix \o <<SP>> \o CodeText(r.code) \o <<SP>>
        \o Join([k \in DOMAIN r.params |-> Argument(r.params[k])], <<SP>>)

\* Session 1 is given a structured message or reply to write.
InitCodec ==
    /\ users = [s \in 1..2 |-> ProfileUser(s, "inc")]
    /\ channels = {"#c"}
    /\ created = [c \in JoinNames |-> IF c = "#c" THEN 1 ELSE 0]
    /\ dirty = [s \in Sessions |-> FALSE]
    /\ welcomes = [s \in Sessions |-> IF s \in 1..2 THEN 1 ELSE 0]
    /\ \/ \E m \in Messages :
            /\ msg = [s \in Sessions |-> IF s = 1 THEN m ELSE NoLine]
            /\ loc = [s \in Sessions |->
                         [message_str |-> << >>, supplied |-> m, parsed |-> << >>]]
            /\ pc = [s \in Sessions |->
                        IF s = 1 THEN "c_msg" ELSE IF s = 2 THEN "read" ELSE "new"]
       \/ \E r \in Responses :
            /\ msg = [s \in Sessions |-> NoLine]
            /\ loc = [s \in Sessions |->
                         [message_str |-> << >>, supplied |-> r, parsed |-> << >>]]
            /\ pc = [s \in Sessions |->
                        IF s = 1 THEN "c_resp" ELSE IF s = 2 THEN "read" ELSE "new"]
    /\ it = [s \in Sessions |-> {}]
    /\ ulease = {}
    /\ clease = {}
    /\ ret = [s \in Sessions |-> "None"]
    /\ out = [s \in Sessions |-> << >>]
    /\ broken = {}
    /\ eof = [s \in Sessions |-> FALSE]
    /\ ncmds = [s \in Sessions |-> 0]

\* message.to_string()
CodecMessage(s) ==
    /\ pc[s] = "c_msg"
    /\ loc' = [loc EXCEPT ![s].message_str = MessageFmt(msg[s])]
    /\ Goto(s, "c_parse")
    /\ UNCHANGED <<users, channels, created, dirty, msg, it, ulease, clease, ret, out, broken,
                   eof, ncmds, welcomes>>

\* response.to_string()
CodecResponse(s) ==
    /\ pc[s] = "c_resp"
    /\ loc' = [loc EXCEPT ![s].message_str = ResponseFmt(loc[s].supplied)]
    /\ Goto(s, "c_done")
    /\ UNCHANGED <<users, channels, created, dirty, msg, it, ulease, clease, ret, out, broken,
                   eof, ncmds, welcomes>>

\* Message::from of the line just written; the first result is written
\* and parsed once more.
CodecParse(s) ==
    /\ pc[s] = "c_parse"
    /\ LET r == MessageFrom(loc[s].message_str)
       IN  IF r.ok
           THEN /\ msg' = [msg EXCEPT ![s] = r.message]
                /\ loc' = [loc EXCEPT ![s].parsed = Append(@, r.message)]
                /\ Goto(s, IF loc[s].parsed = << >> THEN "c_msg" ELSE "c_done")
           ELSE /\ Goto(s, "c_done")
                /\ UNCHANGED <<msg, loc>>
    /\ UNCHANGED <<users, channels, created, dirty, it, ulease, clease, ret, out, broken,
                   eof, ncmds, welcomes>>

NextCodec == \E s \in Sessions : CodecMessage(s) \/ CodecResponse(s) \/ CodecParse(s)

SpecCodec == InitCodec /\ [][NextCodec]_vars

\* C27: for a line L the serializer produced, parsing L, writing the result
\* and parsing again yields the prefix, command and parameters that parsing
\* L yields.
C27_RoundTrip ==
    \A s \in Sessions :
        (pc[s] = "c_done" /\ Len(loc[s].parsed) = 2)
        => loc[s].parsed[2] = loc[s].parsed[1]

EndsWith(text, suffix) ==
    /\ Len(text) >= Len(suffix)
    /\ SubSeq(text, Len(text) - Len(suffix) + 1, Len(text)) = suffix

\* The line in message_str is the serialization of the supplied value.
FirstLine(s) == pc[s] \in {"c_parse", "c_done"} /\ loc[s].parsed = << >>

\* C28: a line is written for a message or reply with a parameter that
\* contains a space only when that is its one such parameter, and the line
\* ends with ':' and that parameter.
C28_TrailingLast ==
    \A s \in Sessions :
        FirstLine(s)
        => LET ps == loc[s].supplied.params
               spaced == {k \in DOMAIN ps : HasChar(ps[k], SP)}
           IN  spaced # {}
               => /\ Cardinality(spaced) = 1
                  /\ \A k \in spaced : EndsWith(loc[s].message_str, <<":">> \o ps[k])


\* C29: a participant that is in a channel or marked away is registered
\* and has both names set.
C29_MembersRegistered ==
    \A u \in DOMAIN users :
        (users[u].channel # NoName \/ users[u].is_away)
        => /\ users[u].is_registered
           /\ users[u].nickname # NoName
           /\ users[u].username # NoName

\* C29 witness: a JOIN has just put its originator into the named channel.
C29_Witness ==
    \E s \in Sessions :
        /\ Accepted(s, "JOIN", 1)
        /\ dirty[s]
        /\ users[s].channel = msg[s].params[1]
        /\ users[s].is_registered

\* C30: the step of a KICK that clears its target's channel finds the
\* target in the channel the KICK names.
C30_KickClearsNamedChannel ==
    [][\A s \in Sessions :
        (/\ pc[s] = "kick_clear"
         /\ pc'[s] # "kick_clear"
         /\ Present(loc[s].target)
         /\ users' # users)
        => users[loc[s].target].channel = msg[s].params[1]]_vars

====
